---------------------------- MODULE Spec2Model ----------------------------
(***************************************************************************)
(* Model of the bytecode simulator core of JavaDecomp                      *)
(* (src/src/decompiler_advanced.py, class JavaVirtualDebugger) and of the  *)
(* GUI handlers that drive it.                                             *)
(*                                                                         *)
(* Python text is modelled as a sequence of one-character strings, so     *)
(* that substring tests, int() and str() are computed and not assumed.     *)
(* A stack value is a tagged record: an int, a float with an integral      *)
(* value, a str or None.  A method that can raise is an operator that      *)
(* returns the object as the raise leaves it together with the name of     *)
(* the exception ("" when it returns normally).                            *)
(***************************************************************************)
EXTENDS Integers, Sequences, FiniteSets, TLC

(***************************************************************************)
(* Bounds of the model.                                                    *)
(***************************************************************************)
\* longest instruction stream
MaxLen == 3
\* instruction offsets and breakpoint offsets are drawn from 0..MaxOffset
MaxOffset == 1
\* step() is not called again once the trace ends with this many
\* "End of program reached." lines (the code appends one per call, forever)
MaxEndSteps == 2

(***************************************************************************)
(* Text.                                                                   *)
(***************************************************************************)
Digits == <<"0", "1", "2", "3", "4", "5", "6", "7", "8", "9">>

Whitespace == {" ", "\t", "\n", "\r"}

IsDigit(c) == \E i \in 1..10 : Digits[i] = c

DigitVal(c) == (CHOOSE i \in 1..10 : Digits[i] = c) - 1

\* needle in hay, for two texts
Contains(hay, needle) ==
    \E i \in 1..(Len(hay) - Len(needle) + 1) :
        SubSeq(hay, i, i + Len(needle) - 1) = needle

\* s.strip()
Strip(s) ==
    LET keep == {i \in 1..Len(s) : s[i] \notin Whitespace}
    IN  IF keep = {} THEN <<>>
        ELSE SubSeq(s, CHOOSE i \in keep : \A j \in keep : i <= j,
                       CHOOSE i \in keep : \A j \in keep : j <= i)

RECURSIVE DigitsToNat(_)
DigitsToNat(s) ==
    IF s = <<>> THEN 0
    ELSE 10 * DigitsToNat(SubSeq(s, 1, Len(s) - 1)) + DigitVal(s[Len(s)])

RECURSIVE NatToStr(_)
NatToStr(n) ==
    IF n < 10 THEN <<Digits[n + 1]>>
    ELSE NatToStr(n \div 10) \o <<Digits[(n % 10) + 1]>>

\* str(n) of an int
IntToStr(n) == IF n < 0 THEN <<"-">> \o NatToStr(0 - n) ELSE NatToStr(n)

\* int(s): an optional sign and decimal digits, surrounding whitespace
\* allowed; anything else raises ValueError (ok = FALSE)
PyInt(s) ==
    LET t    == Strip(s)
        sgn  == t # <<>> /\ t[1] \in {"-", "+"}
        body == IF sgn THEN Tail(t) ELSE t
    IN  IF body # <<>> /\ \A i \in 1..Len(body) : IsDigit(body[i])
        THEN [ok |-> TRUE,
              n  |-> IF sgn /\ t[1] = "-" THEN 0 - DigitsToNat(body)
                     ELSE DigitsToNat(body)]
        ELSE [ok |-> FALSE, n |-> 0]

\* re.search(r'#(\d+)', s): the leftmost '#' that a digit follows, and the
\* longest run of digits after it; ok = FALSE when search returns None
SearchHashIndex(s) ==
    LET starts == {i \in 1..(Len(s) - 1) : s[i] = "#" /\ IsDigit(s[i + 1])}
    IN  IF starts = {} THEN [ok |-> FALSE, n |-> 0]
        ELSE LET i    == CHOOSE i \in starts : \A j \in starts : i <= j
                 ends == {e \in (i + 1)..Len(s) :
                            /\ \A k \in (i + 1)..e : IsDigit(s[k])
                            /\ (e = Len(s) \/ ~IsDigit(s[e + 1]))}
                 e    == CHOOSE e \in ends : TRUE
             IN  [ok |-> TRUE, n |-> DigitsToNat(SubSeq(s, i + 1, e))]

RECURSIVE Join(_, _)
\* sep.join(parts)
Join(sep, parts) ==
    IF parts = <<>> THEN <<>>
    ELSE IF Len(parts) = 1 THEN parts[1]
    ELSE parts[1] \o sep \o Join(sep, Tail(parts))

RECURSIVE Repeat(_, _)
\* s * n for a str s and an int n
Repeat(s, n) == IF n <= 0 THEN <<>> ELSE s \o Repeat(s, n - 1)

(***************************************************************************)
(* Texts the code compares against.                                        *)
(***************************************************************************)
OP_ldc == <<"l", "d", "c">>
OP_getstatic == <<"g", "e", "t", "s", "t", "a", "t", "i", "c">>
OP_invokevirtual ==
    <<"i", "n", "v", "o", "k", "e", "v", "i", "r", "t", "u", "a", "l">>
OP_new == <<"n", "e", "w">>
OP_istore_1 == <<"i", "s", "t", "o", "r", "e", "_", "1">>
OP_istore_2 == <<"i", "s", "t", "o", "r", "e", "_", "2">>
OP_iconst_5 == <<"i", "c", "o", "n", "s", "t", "_", "5">>
OP_bipush == <<"b", "i", "p", "u", "s", "h">>
OP_iadd == <<"i", "a", "d", "d">>
OP_isub == <<"i", "s", "u", "b">>
OP_imul == <<"i", "m", "u", "l">>
OP_idiv == <<"i", "d", "i", "v">>
OP_irem == <<"i", "r", "e", "m">>
T_println == <<"p", "r", "i", "n", "t", "l", "n">>
T_append == <<"a", "p", "p", "e", "n", "d">>
T_toString == <<"t", "o", "S", "t", "r", "i", "n", "g">>
T_SystemOut ==
    <<"j", "a", "v", "a", "/", "l", "a", "n", "g", "/",
      "S", "y", "s", "t", "e", "m", ".", "o", "u", "t">>
T_StringBuilder ==
    <<"j", "a", "v", "a", "/", "l", "a", "n", "g", "/",
      "S", "t", "r", "i", "n", "g", "B", "u", "i", "l", "d", "e", "r">>
T_None == <<"N", "o", "n", "e">>

(***************************************************************************)
(* Stack values: int | float | str | None.                                 *)
(***************************************************************************)
PyIntVal(n) == [t |-> "int", n |-> n, s |-> <<>>]
PyFloatVal(n) == [t |-> "float", n |-> n, s |-> <<>>]
PyStrVal(s) == [t |-> "str", n |-> 0, s |-> s]
PyNone == [t |-> "none", n |-> 0, s |-> <<>>]

IsNum(v) == v.t \in {"int", "float"}

\* the int or float that a numeric operation on a and b yields
NumVal(a, b, n) ==
    IF a.t = "float" \/ b.t = "float" THEN PyFloatVal(n) ELSE PyIntVal(n)

\* str(value), also the text an f-string puts for {value}
PyStr(v) ==
    CASE v.t = "int"   -> IntToStr(v.n)
      [] v.t = "float" -> IntToStr(v.n) \o <<".", "0">>
      [] v.t = "str"   -> v.s
      [] v.t = "none"  -> T_None

\* float(s) for the texts of the model: an integer literal gives the float
\* of that value, every other text raises ValueError (ok = FALSE)
PyFloat(s) == PyInt(s)

\* a op b; exc names the exception the operator raises, "" when none
PyAdd(a, b) ==
    IF IsNum(a) /\ IsNum(b) THEN [exc |-> "", v |-> NumVal(a, b, a.n + b.n)]
    ELSE IF a.t = "str" /\ b.t = "str"
         THEN [exc |-> "", v |-> PyStrVal(a.s \o b.s)]
    ELSE [exc |-> "TypeError", v |-> PyNone]

\* a subtraction with the operands in the order they are popped: b - a
PySub_swapped(a, b) ==
    IF IsNum(a) /\ IsNum(b) THEN [exc |-> "", v |-> NumVal(a, b, b.n - a.n)]
    ELSE [exc |-> "TypeError", v |-> PyNone]

PySub(a, b) ==
    IF IsNum(a) /\ IsNum(b) THEN [exc |-> "", v |-> NumVal(a, b, a.n - b.n)]
    ELSE [exc |-> "TypeError", v |-> PyNone]

PyMul(a, b) ==
    IF IsNum(a) /\ IsNum(b) THEN [exc |-> "", v |-> NumVal(a, b, a.n * b.n)]
    ELSE IF a.t = "str" /\ b.t = "int"
         THEN [exc |-> "", v |-> PyStrVal(Repeat(a.s, b.n))]
    ELSE IF a.t = "int" /\ b.t = "str"
         THEN [exc |-> "", v |-> PyStrVal(Repeat(b.s, a.n))]
    ELSE [exc |-> "TypeError", v |-> PyNone]

\* a division that rounds toward zero, as the idiv of the JVM does
PyFloorDiv_truncating(a, b) ==
    IF IsNum(a) /\ IsNum(b)
    THEN IF b.n = 0 THEN [exc |-> "ZeroDivisionError", v |-> PyNone]
         ELSE LET abs(n) == IF n < 0 THEN 0 - n ELSE n
                  q      == abs(a.n) \div abs(b.n)
              IN  [exc |-> "",
                   v   |-> NumVal(a, b, IF (a.n < 0) = (b.n < 0) THEN q
                                        ELSE 0 - q)]
    ELSE [exc |-> "TypeError", v |-> PyNone]

\* a // b rounds toward negative infinity, as \div does
PyFloorDiv(a, b) ==
    IF IsNum(a) /\ IsNum(b)
    THEN IF b.n = 0 THEN [exc |-> "ZeroDivisionError", v |-> PyNone]
         ELSE IF b.n > 0 THEN [exc |-> "", v |-> NumVal(a, b, a.n \div b.n)]
         ELSE [exc |-> "", v |-> NumVal(a, b, (0 - a.n) \div (0 - b.n))]
    ELSE [exc |-> "TypeError", v |-> PyNone]

\* a % b has the sign of b; a str on the left is %-formatting, which raises
\* TypeError for a text without a conversion specifier (no text of the
\* model has one)
PyMod(a, b) ==
    IF IsNum(a) /\ IsNum(b)
    THEN IF b.n = 0 THEN [exc |-> "ZeroDivisionError", v |-> PyNone]
         ELSE IF b.n > 0 THEN [exc |-> "", v |-> NumVal(a, b, a.n % b.n)]
         ELSE [exc |-> "", v |-> NumVal(a, b, 0 - ((0 - a.n) % (0 - b.n)))]
    ELSE [exc |-> "TypeError", v |-> PyNone]

(***************************************************************************)
(* The debugger object.  A JavaVirtualDebugger is a record with the fields *)
(* of the class; the methods are operators from the object to the object   *)
(* they leave behind.                                                      *)
(***************************************************************************)
\* instr['line'] and last_breakpoint_hit when they are None
NoLine == -1
NoOffset == -1

\* one line of self.output: the fixed text of the message and the texts
\* its f-string interpolates
Line(msg, args) == [msg |-> msg, args |-> args]

\* d[k] = v on a dict kept in insertion order
DictSet(d, k, v) ==
    IF \E i \in 1..Len(d) : d[i].k = k
    THEN [i \in 1..Len(d) |-> IF d[i].k = k THEN [k |-> k, v |-> v] ELSE d[i]]
    ELSE Append(d, [k |-> k, v |-> v])

Push(self, v) == [self EXCEPT !.stack = Append(@, v)]

\* the stack without its top n values
Pop(self, n) ==
    [self EXCEPT !.stack = SubSeq(@, 1, Len(@) - n)]

Top(self) == self.stack[Len(self.stack)]

Second(self) == self.stack[Len(self.stack) - 1]

Out(self, msg, args) == [self EXCEPT !.output = Append(@, Line(msg, args))]

Returns(self) == [self |-> self, exc |-> ""]

Raises(self, exc) == [self |-> self, exc |-> exc]

\* BinaryOp inside a try/except that swallows what the operator raises
BinaryOp_swallowing(self, r, msg) ==
    LET b == Top(self)
        a == Second(self)
        popped == Pop(self, 2)
    IN  IF r.exc # "" THEN Returns(popped)
        ELSE Returns(Out(Push(popped, r.v), msg,
                         <<PyStr(a), PyStr(b), PyStr(r.v)>>))

\* the binary numeric opcodes: pop b, pop a, compute, push and report; the
\* two pops are done when the operator raises
BinaryOp(self, r, msg) ==
    LET b == Top(self)
        a == Second(self)
        popped == Pop(self, 2)
    IN  IF r.exc # "" THEN Raises(popped, r.exc)
        ELSE Returns(Out(Push(popped, r.v), msg,
                         <<PyStr(a), PyStr(b), PyStr(r.v)>>))

\* StoreTo without the test "if self.stack": pop() of an empty list raises
StoreTo_unchecked(self, name) ==
    IF self.stack # <<>>
    THEN LET v == Top(self)
         IN  Returns(Out([Pop(self, 1) EXCEPT
                              !.variables = DictSet(@, name, v)],
                         "Set variable = ", <<<<name>>, PyStr(v)>>))
    ELSE Raises(self, "IndexError")

\* the istore branches: pop the top into the variable, if there is a top
StoreTo(self, name) ==
    IF self.stack # <<>>
    THEN LET v == Top(self)
         IN  Returns(Out([Pop(self, 1) EXCEPT
                              !.variables = DictSet(@, name, v)],
                         "Set variable = ", <<<<name>>, PyStr(v)>>))
    ELSE Returns(self)

\* _simulate_invokevirtual with a println that reads the top of the stack
\* and leaves it there
_simulate_invokevirtual_peek(self, operands) ==
    IF Contains(operands, T_println)
    THEN IF Len(self.stack) >= 1
         THEN LET output_str == PyStr(Top(self))
                  logged == Out(self, "Program output: ",
                                <<output_str>>)
              IN  Returns([logged EXCEPT !.program_output =
                               Append(@, output_str \o <<"\n">>)])
         ELSE Returns(self)
    ELSE IF Contains(operands, T_append)
    THEN IF Len(self.stack) >= 2
         THEN LET value   == Top(self)
                  builder == Second(self)
                  result  == PyStrVal(PyStr(builder) \o PyStr(value))
              IN  Returns(Out(Push(Pop(self, 2), result), "Appended: to ",
                              <<PyStr(value), PyStr(builder)>>))
         ELSE Returns(self)
    ELSE IF Contains(operands, T_toString)
    THEN IF Len(self.stack) >= 1
         THEN LET result == PyStrVal(PyStr(Top(self)))
              IN  Returns(Out(Push(Pop(self, 1), result),
                              "Converted to string: ", <<result.s>>))
         ELSE Returns(self)
    ELSE Returns(self)

\* the invokevirtual branch of _simulate_instruction
_simulate_invokevirtual(self, operands) ==
    IF Contains(operands, T_println)
    THEN IF Len(self.stack) >= 1
         THEN LET output_str == PyStr(Top(self))
                  logged == Out(Pop(self, 1), "Program output: ",
                                <<output_str>>)
              IN  Returns([logged EXCEPT !.program_output =
                               Append(@, output_str \o <<"\n">>)])
         ELSE Returns(self)
    ELSE IF Contains(operands, T_append)
    THEN IF Len(self.stack) >= 2
         THEN LET value   == Top(self)
                  builder == Second(self)
                  result  == PyStrVal(PyStr(builder) \o PyStr(value))
              IN  Returns(Out(Push(Pop(self, 2), result), "Appended: to ",
                              <<PyStr(value), PyStr(builder)>>))
         ELSE Returns(self)
    ELSE IF Contains(operands, T_toString)
    THEN IF Len(self.stack) >= 1
         THEN LET result == PyStrVal(PyStr(Top(self)))
              IN  Returns(Out(Push(Pop(self, 1), result),
                              "Converted to string: ", <<result.s>>))
         ELSE Returns(self)
    ELSE Returns(self)

_simulate_ldc(self, operands) ==
    LET m == SearchHashIndex(operands)
    IN  IF ~m.ok THEN Raises(self, "AttributeError")
        ELSE IF m.n \in DOMAIN self.string_constants
        THEN Returns(Out(Push(self, PyStrVal(self.string_constants[m.n])),
                         "Loaded string constant: ",
                         <<self.string_constants[m.n]>>))
        ELSE LET f == PyFloat(Strip(operands))
             IN  IF f.ok
                 THEN Returns(Out(Push(self, PyFloatVal(f.n)),
                                  "Loaded constant: ",
                                  <<PyStr(PyFloatVal(f.n))>>))
                 ELSE Returns(Push(self, PyNone))

_simulate_numeric(self, opcode, operands) ==
    IF opcode = OP_istore_1 THEN StoreTo(self, "a")
    ELSE IF opcode = OP_istore_2 THEN StoreTo(self, "b")
    ELSE IF opcode = OP_iconst_5
    THEN Returns(Out(Push(self, PyIntVal(5)),
                     "Pushed constant 5 to stack", <<>>))
    ELSE IF opcode = OP_bipush
    THEN LET value == PyInt(Strip(operands))
         IN  IF value.ok
             THEN Returns(Out(Push(self, PyIntVal(value.n)),
                              "Pushed constant to stack",
                              <<IntToStr(value.n)>>))
             ELSE Raises(self, "ValueError")
    ELSE IF opcode = OP_iadd
    THEN IF Len(self.stack) >= 2
         THEN BinaryOp(self, PyAdd(Second(self), Top(self)), "Added + = ")
         ELSE Returns(self)
    ELSE IF opcode = OP_isub
    THEN IF Len(self.stack) >= 2
         THEN BinaryOp(self, PySub(Second(self), Top(self)),
                       "Subtracted - = ")
         ELSE Returns(self)
    ELSE IF opcode \in {OP_imul, OP_idiv, OP_irem}
    THEN IF Len(self.stack) >= 2
         THEN IF opcode = OP_imul
              THEN BinaryOp(self, PyMul(Second(self), Top(self)),
                            "Multiplied * = ")
              ELSE IF opcode = OP_idiv
              THEN BinaryOp(self, PyFloorDiv(Second(self), Top(self)),
                            "Divided / = ")
              ELSE BinaryOp(self, PyMod(Second(self), Top(self)),
                            "Remainder % = ")
         ELSE Returns(self)
    ELSE Returns(self)

\* _simulate_instruction with a new branch that does not look at the type
_simulate_instruction_any_new(self, instr) ==
    LET opcode   == instr.opcode
        operands == instr.operands
    IN  IF opcode = OP_ldc THEN _simulate_ldc(self, operands)
        ELSE IF opcode = OP_getstatic /\ Contains(operands, T_SystemOut)
        THEN Returns(self)
        ELSE IF opcode = OP_invokevirtual
        THEN _simulate_invokevirtual(self, operands)
        ELSE IF opcode = OP_new
        THEN Returns(Out(Push(self, PyStrVal(<<>>)),
                         "Created new StringBuilder", <<>>))
        ELSE _simulate_numeric(self, opcode, operands)

\* JavaVirtualDebugger._simulate_instruction
_simulate_instruction(self, instr) ==
    LET opcode   == instr.opcode
        operands == instr.operands
    IN  IF opcode = OP_ldc THEN _simulate_ldc(self, operands)
        ELSE IF opcode = OP_getstatic /\ Contains(operands, T_SystemOut)
        THEN Returns(self)
        ELSE IF opcode = OP_invokevirtual
        THEN _simulate_invokevirtual(self, operands)
        ELSE IF opcode = OP_new /\ Contains(operands, T_StringBuilder)
        THEN Returns(Out(Push(self, PyStrVal(<<>>)),
                         "Created new StringBuilder", <<>>))
        ELSE _simulate_numeric(self, opcode, operands)

\* JavaVirtualDebugger._show_state
_show_state(self) ==
    LET stack_str == Join(<<",", " ">>,
                          [i \in 1..Len(self.stack) |-> PyStr(self.stack[i])])
        var_str   == Join(<<",", " ">>,
                          [i \in 1..Len(self.variables) |->
                              <<self.variables[i].k, "=">>
                                  \o PyStr(self.variables[i].v)])
    IN  [self EXCEPT !.output = @ \o
            << Line("\nCurrent State:", <<>>),
               Line("PC: ", <<IntToStr(self.current_instruction_index)>>),
               Line("Stack: []", <<stack_str>>),
               Line("Variables: ", <<var_str>>),
               Line("", <<>>) >>]

\* reset without the clearing of program_output
reset_keeps_program_output(self) ==
    [self EXCEPT !.output = <<Line("Program reset. Ready to run.", <<>>)>>,
                 !.variables = << [k |-> "a", v |-> PyIntVal(5)],
                                  [k |-> "b", v |-> PyIntVal(10)] >>,
                 !.stack = <<>>,
                 !.current_instruction_index = 0,
                 !.execution_state = "stopped"]

\* reset that also empties the Breakpoint Set
reset_clearing_breakpoints(self) ==
    [self EXCEPT !.output = <<Line("Program reset. Ready to run.", <<>>)>>,
                 !.variables = << [k |-> "a", v |-> PyIntVal(5)],
                                  [k |-> "b", v |-> PyIntVal(10)] >>,
                 !.stack = <<>>,
                 !.current_instruction_index = 0,
                 !.execution_state = "stopped",
                 !.program_output = <<>>,
                 !.breakpoints = {}]

\* reset that appends to the trace it finds instead of starting a new one
reset_appends_to_trace(self) ==
    [self EXCEPT !.output = Append(@, Line("Program reset. Ready to run.",
                                           <<>>)),
                 !.variables = << [k |-> "a", v |-> PyIntVal(5)],
                                  [k |-> "b", v |-> PyIntVal(10)] >>,
                 !.stack = <<>>,
                 !.current_instruction_index = 0,
                 !.execution_state = "stopped",
                 !.program_output = <<>>]

\* JavaVirtualDebugger.reset
reset(self) ==
    [self EXCEPT !.output = <<Line("Program reset. Ready to run.", <<>>)>>,
                 !.variables = << [k |-> "a", v |-> PyIntVal(5)],
                                  [k |-> "b", v |-> PyIntVal(10)] >>,
                 !.stack = <<>>,
                 !.current_instruction_index = 0,
                 !.execution_state = "stopped",
                 !.program_output = <<>>]

\* advance that moves the counter by two
advance_by_two(self) == [self EXCEPT !.current_instruction_index = @ + 2]

\* self.current_instruction_index += 1
advance(self) == [self EXCEPT !.current_instruction_index = @ + 1]

\* end_of_program that moves the counter as the other branch of step does
end_of_program_advancing(self) ==
    [Out(self, "End of program reached.", <<>>)
        EXCEPT !.execution_state = "stopped",
               !.current_instruction_index = @ + 1]

\* end_of_program without the assignment of "stopped"
end_of_program_unstopped(self) ==
    Out(self, "End of program reached.", <<>>)

\* step() when the program counter is at or past the end of the stream
end_of_program(self) ==
    [Out(self, "End of program reached.", <<>>)
        EXCEPT !.execution_state = "stopped"]

\* JavaVirtualDebugger.step
step(self) ==
    LET paused == [self EXCEPT !.execution_state = "paused"]
    IN  IF paused.current_instruction_index >= Len(paused.instructions)
        THEN Returns(end_of_program(paused))
        ELSE LET instr == paused.instructions[
                              paused.current_instruction_index + 1]
                 shown == Out([paused EXCEPT !.output = <<>>], "Executing: ",
                              <<IntToStr(instr.offset), instr.opcode,
                                instr.operands>>)
                 lined == IF instr.line # NoLine
                          THEN Out(shown, "Source line: ",
                                   <<IntToStr(instr.line)>>)
                          ELSE shown
                 r     == _simulate_instruction(lined, instr)
             IN  IF r.exc # "" THEN r
                 ELSE Returns(_show_state(advance(r.self)))

\* is_breakpoint without the skip-current rule
is_breakpoint_no_skip(self, current_offset, skip_current) ==
    current_offset \in self.breakpoints

\* is_breakpoint with the skip rule applied at every position, not only at
\* the entry position
is_breakpoint_skip_anywhere(self, current_offset, skip_current) ==
    /\ current_offset \in self.breakpoints
    /\ current_offset # self.last_breakpoint_hit

\* the test of run_to_next_breakpoint for "this instruction is at a
\* breakpoint"
is_breakpoint(self, current_offset, skip_current) ==
    /\ current_offset \in self.breakpoints
    /\ (~skip_current \/ current_offset # self.last_breakpoint_hit)

\* drained without the assignment of "stopped"
drained_unstopped(self) == _show_state(self)

\* drained with the Program Output Log emptied, as reset does
drained_clearing_log(self) ==
    _show_state([self EXCEPT !.execution_state = "stopped",
                             !.program_output = <<>>])

\* run_to_next_breakpoint when the loop ends without a breakpoint
drained(self) == _show_state([self EXCEPT !.execution_state = "stopped"])

RECURSIVE sweep(_, _)
\* the while loop of run_to_next_breakpoint
sweep(self, skip_current) ==
    IF self.current_instruction_index < Len(self.instructions)
    THEN LET current_instr  == self.instructions[
                                   self.current_instruction_index + 1]
             current_offset == current_instr.offset
         IN  IF is_breakpoint(self, current_offset, skip_current)
             THEN Returns(_show_state(
                    [self EXCEPT !.execution_state = "paused",
                                 !.last_breakpoint_hit = current_offset]))
             ELSE LET r == _simulate_instruction(self, current_instr)
                  IN  IF r.exc # "" THEN r
                      ELSE sweep(advance(r.self), FALSE)
    ELSE Returns(drained(self))

\* JavaVirtualDebugger.run_to_next_breakpoint
run_to_next_breakpoint(self) ==
    LET running == [self EXCEPT !.execution_state = "running",
                                !.output = <<>>]
        skip_current ==
            /\ running.current_instruction_index < Len(running.instructions)
            /\ LET current_offset ==
                       running.instructions[
                           running.current_instruction_index + 1].offset
               IN  /\ current_offset \in running.breakpoints
                   /\ current_offset = running.last_breakpoint_hit
    IN  sweep(running, skip_current)

\* DecompilerApp.reset_debugger, for a loaded debugger
reset_debugger(self) ==
    [reset(self) EXCEPT !.last_breakpoint_hit = NoOffset]

(***************************************************************************)
(* The parser.  A listing is a text; parse_bytecode splits it into lines   *)
(* and tries two regular expressions on every line.                        *)
(***************************************************************************)
\* the characters of the class [a-zA-Z_]
Letters ==
    { "a", "b", "c", "d", "e", "f", "g", "h", "i", "j", "k", "l", "m",
      "n", "o", "p", "q", "r", "s", "t", "u", "v", "w", "x", "y", "z",
      "A", "B", "C", "D", "E", "F", "G", "H", "I", "J", "K", "L", "M",
      "N", "O", "P", "Q", "R", "S", "T", "U", "V", "W", "X", "Y", "Z",
      "_" }

\* the characters of the class \d
DigitChars == {Digits[i] : i \in 1..10}

\* the index after the longest run of characters of the class that starts
\* at index i of s
RunEnd(s, i, class) ==
    CHOOSE e \in i..(Len(s) + 1) :
        /\ \A k \in i..(e - 1) : s[k] \in class
        /\ e = Len(s) + 1 \/ s[e] \notin class

\* s[i:], the text from index i on
From(s, i) == SubSeq(s, i, Len(s))

RECURSIVE SplitLines(_)
\* text.split('\n')
SplitLines(text) ==
    IF \E i \in 1..Len(text) : text[i] = "\n"
    THEN LET i == CHOOSE i \in 1..Len(text) :
                      /\ text[i] = "\n"
                      /\ \A j \in 1..(i - 1) : text[j] # "\n"
         IN  <<SubSeq(text, 1, i - 1)>> \o SplitLines(From(text, i + 1))
    ELSE <<text>>

\* re.search(r"line (\d+):", line): the leftmost "line " that digits and a
\* colon follow; n is int(group(1)), ok = FALSE when search returns None
SearchLineMarker(line) ==
    LET IsMatch(i) ==
            /\ i + 4 <= Len(line)
            /\ SubSeq(line, i, i + 4) = <<"l", "i", "n", "e", " ">>
            /\ LET e == RunEnd(line, i + 5, DigitChars)
               IN  e > i + 5 /\ e <= Len(line) /\ line[e] = ":"
        starts == {i \in 1..Len(line) : IsMatch(i)}
    IN  IF starts = {} THEN [ok |-> FALSE, n |-> 0]
        ELSE LET i == CHOOSE i \in starts : \A j \in starts : i <= j
             IN  [ok |-> TRUE,
                  n  |-> DigitsToNat(
                             SubSeq(line, i + 5,
                                    RunEnd(line, i + 5, DigitChars) - 1))]

\* re.search(r"^\s*(\d+): ([a-zA-Z_]+)(.*?)(?://.*)?$", line): whitespace,
\* digits, a colon and a space, the longest run of letters and underscores,
\* and the rest of the line up to the first "//"
SearchInstruction(line) ==
    LET d    == RunEnd(line, 1, Whitespace)
        c    == RunEnd(line, d, DigitChars)
        o    == c + 2
        r    == RunEnd(line, o, Letters)
        rest == From(line, r)
        cuts == {i \in 1..(Len(rest) - 1) : rest[i] = "/" /\ rest[i + 1] = "/"}
        cut  == IF cuts = {} THEN Len(rest) + 1
                ELSE CHOOSE i \in cuts : \A j \in cuts : i <= j
    IN  IF /\ c > d
           /\ c + 1 <= Len(line)
           /\ line[c] = ":" /\ line[c + 1] = " "
           /\ r > o
        THEN [ok |-> TRUE,
              offset   |-> SubSeq(line, d, c - 1),
              opcode   |-> SubSeq(line, o, r - 1),
              operands |-> SubSeq(rest, 1, cut - 1)]
        ELSE [ok |-> FALSE, offset |-> <<>>, opcode |-> <<>>,
              operands |-> <<>>]

RECURSIVE parse_lines(_, _)
\* the loop of parse_bytecode over the lines that are left, with the
\* current_line it has reached
parse_lines(lines, current_line) ==
    IF lines = <<>> THEN <<>>
    ELSE LET line        == Head(lines)
             line_match  == SearchLineMarker(line)
             marked      == IF line_match.ok THEN line_match.n
                            ELSE current_line
             instr_match == SearchInstruction(line)
         IN  (IF instr_match.ok
              THEN << [offset   |-> DigitsToNat(instr_match.offset),
                       opcode   |-> instr_match.opcode,
                       operands |-> Strip(instr_match.operands),
                       line     |-> marked] >>
              ELSE <<>>)
             \o parse_lines(Tail(lines), marked)

\* JavaVirtualDebugger.parse_bytecode
parse_bytecode(bytecode) == parse_lines(SplitLines(bytecode), NoLine)

\* the end of a run of one or more characters of the class that starts at
\* index i of s, 0 when there is no such run
RunEnd1(s, i, class) ==
    IF i <= Len(s) /\ s[i] \in class THEN RunEnd(s, i, class) ELSE 0

\* s has the text word at index i
HasAt(s, i, word) ==
    /\ i >= 1
    /\ i + Len(word) - 1 <= Len(s)
    /\ SubSeq(s, i, i + Len(word) - 1) = word

\* the tail \s+(.+)$ of the two constant patterns, tried at index i: the
\* whitespace is as long as it can be and still leaves a character for the
\* group
TailGroup(line, i) ==
    LET w == RunEnd1(line, i, Whitespace)
    IN  IF w = 0 THEN [ok |-> FALSE, value |-> <<>>]
        ELSE IF w <= Len(line) THEN [ok |-> TRUE, value |-> From(line, w)]
        ELSE IF w - i >= 2
        THEN [ok |-> TRUE, value |-> From(line, Len(line))]
        ELSE [ok |-> FALSE, value |-> <<>>]

\* the head #\d+\s+=\s+ of the two constant patterns, tried at index i: the
\* index after it, 0 when it does not match
EntryHead(line, i) ==
    IF ~HasAt(line, i, <<"#">>) THEN 0
    ELSE LET d == RunEnd1(line, i + 1, DigitChars)
             w == IF d = 0 THEN 0 ELSE RunEnd1(line, d, Whitespace)
         IN  IF w = 0 \/ ~HasAt(line, w, <<"=">>) THEN 0
             ELSE RunEnd1(line, w + 1, Whitespace)

\* re.search(r'#\d+\s+=\s+Utf8\s+(.+)$', line)
SearchUtf8(line) ==
    LET word == <<"U", "t", "f", "8">>
        At(i) == LET h == EntryHead(line, i)
                 IN  IF h = 0 \/ ~HasAt(line, h, word)
                     THEN [ok |-> FALSE, value |-> <<>>]
                     ELSE TailGroup(line, h + Len(word))
        starts == {i \in 1..Len(line) : At(i).ok}
    IN  IF starts = {} THEN [ok |-> FALSE, value |-> <<>>]
        ELSE At(CHOOSE i \in starts : \A j \in starts : i <= j)

\* re.search(r'#\d+\s+=\s+String\s+#\d+\s+//\s+(.+)$', line)
SearchString(line) ==
    LET word == <<"S", "t", "r", "i", "n", "g">>
        At(i) == LET h == EntryHead(line, i)
                     r == IF h = 0 \/ ~HasAt(line, h, word) THEN 0
                          ELSE RunEnd1(line, h + Len(word), Whitespace)
                     d == IF r = 0 \/ ~HasAt(line, r, <<"#">>) THEN 0
                          ELSE RunEnd1(line, r + 1, DigitChars)
                     c == IF d = 0 THEN 0
                          ELSE RunEnd1(line, d, Whitespace)
                 IN  IF c = 0 \/ ~HasAt(line, c, <<"/", "/">>)
                     THEN [ok |-> FALSE, value |-> <<>>]
                     ELSE TailGroup(line, c + 2)
        starts == {i \in 1..Len(line) : At(i).ok}
    IN  IF starts = {} THEN [ok |-> FALSE, value |-> <<>>]
        ELSE At(CHOOSE i \in starts : \A j \in starts : i <= j)

\* pool[index] = value on a dict
PoolSet(pool, index, value) ==
    [k \in DOMAIN pool \cup {index} |->
        IF k = index THEN value ELSE pool[k]]

\* the two assignments parse_constant_pool makes for a line of the pool
\* region: a String entry, then a Utf8 entry
pool_entries(pool, line) ==
    LET string_match == SearchString(line)
        utf8_match   == SearchUtf8(line)
        index        == SearchHashIndex(line).n
        first        == IF string_match.ok
                        THEN PoolSet(pool, index, string_match.value)
                        ELSE pool
    IN  IF utf8_match.ok THEN PoolSet(first, index, utf8_match.value)
        ELSE first

RECURSIVE pool_lines(_, _, _)
\* the loop of parse_constant_pool over the lines that are left
pool_lines(lines, in_constant_pool, pool) ==
    IF lines = <<>> THEN pool
    ELSE LET line == Head(lines)
         IN  IF Contains(line, <<"C", "o", "n", "s", "t", "a", "n", "t", " ",
                                  "p", "o", "o", "l", ":">>)
             THEN pool_lines(Tail(lines), TRUE, pool)
             ELSE IF in_constant_pool
             THEN IF Strip(line) = <<>>
                  THEN pool_lines(Tail(lines), FALSE, pool)
                  ELSE pool_lines(Tail(lines), TRUE,
                                  pool_entries(pool, line))
             ELSE pool_lines(Tail(lines), FALSE, pool)

\* JavaVirtualDebugger.parse_constant_pool, on the empty string_constants
parse_constant_pool(bytecode) ==
    pool_lines(SplitLines(bytecode), FALSE, <<>>)

(***************************************************************************)
(* The state machine: one debugger object, and the record of the last call *)
(* made on it (which method, the exception it raised, the object at        *)
(* entry, and the method and exception of the call before).                *)
(***************************************************************************)
\* JavaVirtualDebugger._build_line_map: for every source line that tags an
\* instruction, the indexes of the instructions it tags, in stream order
_build_line_map(instrs) ==
    [l \in {instrs[i].line : i \in 1..Len(instrs)} \ {NoLine} |->
        SelectSeq([i \in 1..Len(instrs) |-> i - 1],
                  LAMBDA idx : instrs[idx + 1].line = l)]

\* the line update_ui writes into the debug view for an instruction
DebugViewLine(instr) ==
    IntToStr(instr.offset) \o <<":", " ">> \o instr.opcode \o <<" ">>
        \o instr.operands

\* the lines of formatted_bytecode, the text update_ui puts into the debug
\* view: one line for every instruction (the text ends with an empty line)
formatted_bytecode(instrs) ==
    [i \in 1..Len(instrs) |-> DebugViewLine(instrs[i])]

\* The debugger's fields, the record of the last call, and the state of the
\* application around the debugger: whether DecompilerApp.debugger is set,
\* the lines of the debug view, and the loads that open_class_file started
\* (the listing of each and how far its thread has come).
VARIABLES instructions, breakpoints, output, variables, stack,
          current_instruction_index, execution_state, last_breakpoint_hit,
          program_output, string_constants, line_to_instruction, call,
          debugger_loaded, debug_bytecode_text, loads

vars == <<instructions, breakpoints, output, variables, stack,
          current_instruction_index, execution_state, last_breakpoint_hit,
          program_output, string_constants, line_to_instruction, call,
          debugger_loaded, debug_bytecode_text, loads>>

\* the application around the debugger
app == <<debugger_loaded, debug_bytecode_text, loads>>

\* the application has loaded the debugger's listing and shows it
Displayed ==
    /\ debugger_loaded = TRUE
    /\ debug_bytecode_text = formatted_bytecode(instructions)
    /\ loads = <<>>

Self ==
    [instructions |-> instructions,
     breakpoints |-> breakpoints,
     output |-> output,
     variables |-> variables,
     stack |-> stack,
     current_instruction_index |-> current_instruction_index,
     execution_state |-> execution_state,
     last_breakpoint_hit |-> last_breakpoint_hit,
     program_output |-> program_output,
     string_constants |-> string_constants,
     line_to_instruction |-> line_to_instruction]

\* the object a method leaves behind becomes the state
Becomes(self) ==
    /\ instructions' = self.instructions
    /\ breakpoints' = self.breakpoints
    /\ output' = self.output
    /\ variables' = self.variables
    /\ stack' = self.stack
    /\ current_instruction_index' = self.current_instruction_index
    /\ execution_state' = self.execution_state
    /\ last_breakpoint_hit' = self.last_breakpoint_hit
    /\ program_output' = self.program_output
    /\ string_constants' = self.string_constants
    /\ line_to_instruction' = self.line_to_instruction

\* the instruction at the program counter has an offset in the Breakpoint Set
AtBreakpoint(self) ==
    /\ self.current_instruction_index < Len(self.instructions)
    /\ self.instructions[self.current_instruction_index + 1].offset
           \in self.breakpoints

\* A call of a method: the object it leaves behind becomes the state, and
\* call records the method, the exception it raised, how many step() calls
\* were made since the last reset() (-1 once another method was called or a
\* call raised) and how the call found the session: "reset" or
\* "reset_debugger" right after that call, "hit" when the call before was a
\* run that returned paused and the offset it paused at is in the
\* Breakpoint Set, "" otherwise.  bytecode is the argument of the call: the
\* listing for __init__, nothing for the other methods.
CallRecord(op, exc) ==
    [op |-> op, exc |-> exc, bytecode |-> <<>>,
     steps |-> IF op \in {"reset", "reset_debugger"} THEN 0
               ELSE IF op = "step" /\ exc = "" /\ call.steps >= 0
               THEN call.steps + 1
               ELSE -1,
     entry |-> IF call.op \in {"reset", "reset_debugger"}
               THEN call.op
               ELSE IF /\ call.op = "run"
                       /\ call.exc = ""
                       /\ execution_state = "paused"
                       /\ AtBreakpoint(Self)
               THEN "hit"
               ELSE ""]

Called(op, r) ==
    /\ Becomes(r.self)
    /\ call' = CallRecord(op, r.exc)
    /\ UNCHANGED app

\* the instructions the streams of the model are made of, as
\* parse_bytecode produces them from the lines "o: bipush 0", "o: idiv" and
\* "o: invokevirtual println"; idiv and println on a stack that is too
\* short do nothing
Operations ==
    { [opcode |-> OP_bipush, operands |-> <<"0">>],
      [opcode |-> OP_idiv, operands |-> <<>>],
      [opcode |-> OP_invokevirtual, operands |-> T_println] }

\* the source line of the single "line N:" marker of the listings
MarkerLine == 3

Instruction(operation, offset, line) ==
    [offset |-> offset, opcode |-> operation.opcode,
     operands |-> operation.operands, line |-> line]

\* Offsets of a stream, numbered in the order of their first appearance:
\* the first instruction has offset 0 and an instruction's offset is at
\* most one more than the largest before it.  An offset may repeat (the
\* listing of a class restarts at 0 for every method).  The controller
\* depends on offsets only through equality and membership in the
\* Breakpoint Set, which ranges over every subset of 0..MaxOffset.
OffsetSequences(n) ==
    { offs \in [1..n -> 0..MaxOffset] :
        \A i \in 1..n :
            /\ i = 1 => offs[i] = 0
            /\ i > 1 => \E j \in 1..(i - 1) : offs[i] <= offs[j] + 1 }

\* the streams of at most MaxLen instructions that begin with the push,
\* parsed from a listing whose single "line N:" marker follows the first
\* instruction line
Streams ==
    UNION { { [i \in 1..n |->
                  Instruction(ops[i], offs[i],
                              IF i = 1 THEN NoLine ELSE MarkerLine)] :
                ops \in { o \in [1..n -> Operations] :
                            n > 0 => o[1].opcode = OP_bipush },
                offs \in OffsetSequences(n) } : n \in 0..MaxLen }

RECURSIVE ListingLines(_, _)
\* the lines of the listing of a stream, as javap -c -l prints them and
\* parse_bytecode reads them: "offset: opcode operands" for an instruction,
\* and "line N: offset" in front of the first instruction of source line N
ListingLines(stream, current_line) ==
    IF stream = <<>> THEN <<>>
    ELSE LET instr == Head(stream)
             text  == IntToStr(instr.offset) \o <<":", " ">> \o instr.opcode
                      \o (IF instr.operands = <<>> THEN <<>>
                          ELSE <<" ">> \o instr.operands)
         IN  (IF instr.line # current_line /\ instr.line # NoLine
              THEN << <<"l", "i", "n", "e", " ">> \o IntToStr(instr.line)
                      \o <<":", " ">> \o IntToStr(instr.offset) >>
              ELSE <<>>)
             \o <<text>> \o ListingLines(Tail(stream), instr.line)

Listing(stream) == Join(<<"\n">>, ListingLines(stream, NoLine))

\* JavaVirtualDebugger.__init__ on the listing of one of the streams
Init ==
    /\ \E stream \in Streams :
          /\ call = [op |-> "__init__", exc |-> "", steps |-> -1,
                     entry |-> "", bytecode |-> Listing(stream)]
          /\ instructions = parse_bytecode(call.bytecode)
    /\ breakpoints = {}
    /\ output = <<>>
    /\ variables = <<>>
    /\ stack = <<>>
    /\ current_instruction_index = 0
    /\ execution_state = "stopped"
    /\ last_breakpoint_hit = NoOffset
    /\ program_output = <<>>
    /\ string_constants = parse_constant_pool(call.bytecode)
    /\ line_to_instruction = _build_line_map(instructions)
    /\ Displayed

RECURSIVE TrailingEnds(_)
\* how many "End of program reached." lines the trace ends with
TrailingEnds(out) ==
    IF out # <<>> /\ out[Len(out)] = Line("End of program reached.", <<>>)
    THEN 1 + TrailingEnds(SubSeq(out, 1, Len(out) - 1))
    ELSE 0

Reset == Called("reset", Returns(reset(Self)))

ResetDebugger == Called("reset_debugger", Returns(reset_debugger(Self)))

Step ==
    /\ TrailingEnds(output) < MaxEndSteps
    /\ Called("step", step(Self))

RunToNextBreakpoint == Called("run", run_to_next_breakpoint(Self))

\* a click on the line-number canvas puts one offset into the Breakpoint Set
\* or takes it out; the set reaches the debugger by the assignment
\* debugger.breakpoints = [...]
ToggleBreakpoint(offset) ==
    /\ breakpoints' = IF offset \in breakpoints
                      THEN breakpoints \ {offset}
                      ELSE breakpoints \cup {offset}
    /\ UNCHANGED <<instructions, output, variables, stack,
                   current_instruction_index, execution_state,
                   last_breakpoint_hit, program_output, string_constants,
                   line_to_instruction, call, app>>

Next ==
    \/ Reset
    \/ ResetDebugger
    \/ Step
    \/ RunToNextBreakpoint
    \/ \E offset \in 0..MaxOffset : ToggleBreakpoint(offset)

Spec == Init /\ [][Next]_vars

\* A session that is only run: the caller calls run_to_next_breakpoint()
\* again and again and may change the Breakpoint Set between the calls.
RunNext ==
    \/ RunToNextBreakpoint
    \/ \E offset \in 0..MaxOffset : ToggleBreakpoint(offset)

\* a call of run_to_next_breakpoint() would change nothing: the negation of
\* ENABLED <<RunToNextBreakpoint>>_vars, by the definition of Called
RunChangesNothing ==
    LET r == run_to_next_breakpoint(Self)
    IN  r.self = Self /\ CallRecord("run", r.exc) = call

\* WF_vars(RunToNextBreakpoint) with its ENABLED written out: the caller
\* does call again as long as a call changes anything
WeakFairnessOfRun ==
    \/ []<>RunChangesNothing
    \/ []<><<RunToNextBreakpoint>>_vars

RunSpec == Init /\ [][RunNext]_vars /\ WeakFairnessOfRun

(***************************************************************************)
(* The debug view.  The Run button of the application reads the lines of   *)
(* the debug view that carry a breakpoint mark and turns them into         *)
(* offsets.                                                                *)
(***************************************************************************)
\* debug_bytecode_text.get(f"{line}.0", f"{line}.end"): line k of the debug
\* view shows instruction k, and the text ends with an empty line
DebugViewText(self, line) ==
    IF line \in 1..Len(self.instructions)
    THEN DebugViewLine(self.instructions[line])
    ELSE <<>>

\* the same for any text in the debug view
ViewLineText(text, line) ==
    IF line \in 1..Len(text) THEN text[line] ELSE <<>>

\* re.match(r'^\s*(\d+):', line_text)
MatchOffset(line_text) ==
    LET d == RunEnd1(line_text, RunEnd(line_text, 1, Whitespace), DigitChars)
    IN  IF d # 0 /\ HasAt(line_text, d, <<":">>)
        THEN [ok |-> TRUE,
              n |-> DigitsToNat(SubSeq(line_text,
                                       RunEnd(line_text, 1, Whitespace),
                                       d - 1))]
        ELSE [ok |-> FALSE, n |-> 0]

\* DecompilerApp.run_to_breakpoint for a loaded debugger; breakpoints are
\* the marked lines of the debug view
run_to_breakpoint(self, marked) ==
    IF marked = {} THEN Returns(self)
    ELSE LET bytecode_breakpoints ==
                 { MatchOffset(DebugViewText(self, line)).n :
                     line \in { l \in marked :
                                  MatchOffset(DebugViewText(self, l)).ok } }
         IN  run_to_next_breakpoint(
                 [self EXCEPT !.breakpoints = bytecode_breakpoints])

\* DecompilerApp.run_to_breakpoint when the debug view holds text, which
\* need not be the listing of the debugger
run_to_breakpoint_on(self, text, marked) ==
    IF marked = {} THEN Returns(self)
    ELSE LET bytecode_breakpoints ==
                 { MatchOffset(ViewLineText(text, line)).n :
                     line \in { l \in marked :
                                  MatchOffset(ViewLineText(text, l)).ok } }
         IN  run_to_next_breakpoint(
                 [self EXCEPT !.breakpoints = bytecode_breakpoints])

\* the Run button, with any marks on the lines of the debug view
RunToBreakpoint(marked) ==
    Called("run_to_breakpoint", run_to_breakpoint(Self, marked))

ViewNext ==
    \/ ResetDebugger
    \/ Step
    \/ \E marked \in SUBSET (1..MaxLen + 1) : RunToBreakpoint(marked)

ViewSpec == Init /\ [][ViewNext]_vars

(***************************************************************************)
(* Loading.  open_class_file starts a thread that replaces the debugger    *)
(* and then asks the main thread to update the views; the buttons stay     *)
(* live meanwhile.  Every handler of the main thread is one step, every    *)
(* statement of the loader thread that touches the application is one      *)
(* step.                                                                   *)
(***************************************************************************)
\* how many class files are opened
MaxLoads == 2

\* the listings of the class files: two that differ in their first offset
ClassListings ==
    { Join(<<"\n">>, << <<"0", ":", " ", "n", "o", "p">>,
                        <<"1", ":", " ", "n", "o", "p">> >>),
      Join(<<"\n">>, << <<"5", ":", " ", "b", "i", "p", "u", "s", "h", " ",
                          "7">>,
                        <<"0", ":", " ", "n", "o", "p">> >>) }

\* JavaVirtualDebugger.__init__: the object it constructs
__init__(bytecode) ==
    [instructions |-> parse_bytecode(bytecode),
     breakpoints |-> {},
     output |-> <<>>,
     variables |-> <<>>,
     stack |-> <<>>,
     current_instruction_index |-> 0,
     execution_state |-> "stopped",
     last_breakpoint_hit |-> NoOffset,
     program_output |-> <<>>,
     string_constants |-> parse_constant_pool(bytecode),
     line_to_instruction |-> _build_line_map(parse_bytecode(bytecode))]

\* DecompilerApp after its construction: debugger is None (the variables of
\* the debugger hold no session and mean nothing until debugger_loaded), the
\* debug view is empty and nothing is being loaded
LoadInit ==
    /\ instructions = <<>>
    /\ breakpoints = {}
    /\ output = <<>>
    /\ variables = <<>>
    /\ stack = <<>>
    /\ current_instruction_index = 0
    /\ execution_state = "stopped"
    /\ last_breakpoint_hit = NoOffset
    /\ program_output = <<>>
    /\ string_constants = <<>>
    /\ line_to_instruction = <<>>
    /\ call = [op |-> "None", exc |-> "", steps |-> -1, entry |-> "",
               bytecode |-> <<>>]
    /\ debugger_loaded = FALSE
    /\ debug_bytecode_text = <<>>
    /\ loads = <<>>

\* open_class_file on the main thread: the thread is started with the
\* listing disassemble_class will return
OpenClassFile(code) ==
    /\ Len(loads) < MaxLoads
    /\ loads' = Append(loads, [pc |-> "started", code |-> code])
    /\ UNCHANGED <<instructions, breakpoints, output, variables, stack,
                   current_instruction_index, execution_state,
                   last_breakpoint_hit, program_output, string_constants,
                   line_to_instruction, call, debugger_loaded,
                   debug_bytecode_text>>

\* process_file: self.debugger = JavaVirtualDebugger(disassembled_code)
LoaderCreate(t) ==
    /\ loads[t].pc = "started"
    /\ Becomes(__init__(loads[t].code))
    /\ call' = [op |-> "__init__", exc |-> "", steps |-> -1, entry |-> "",
                bytecode |-> loads[t].code]
    /\ debugger_loaded' = TRUE
    /\ loads' = [loads EXCEPT ![t].pc = "created"]
    /\ UNCHANGED debug_bytecode_text

\* process_file: self.debugger.breakpoints = [], on the debugger the
\* application holds at that moment
LoaderClearBreakpoints(t) ==
    /\ loads[t].pc = "created"
    /\ breakpoints' = {}
    /\ loads' = [loads EXCEPT ![t].pc = "cleared"]
    /\ UNCHANGED <<instructions, output, variables, stack,
                   current_instruction_index, execution_state,
                   last_breakpoint_hit, program_output, string_constants,
                   line_to_instruction, call, debugger_loaded,
                   debug_bytecode_text>>

\* process_file: self.root.after(0, lambda: self.update_ui(...))
LoaderSchedule(t) ==
    /\ loads[t].pc = "cleared"
    /\ loads' = [loads EXCEPT ![t].pc = "scheduled"]
    /\ UNCHANGED <<instructions, breakpoints, output, variables, stack,
                   current_instruction_index, execution_state,
                   last_breakpoint_hit, program_output, string_constants,
                   line_to_instruction, call, debugger_loaded,
                   debug_bytecode_text>>

\* update_ui on the main thread: the debug view is written from the
\* instructions of the debugger the application holds at that moment
UpdateUi(t) ==
    /\ loads[t].pc = "scheduled"
    /\ debug_bytecode_text' = formatted_bytecode(instructions)
    /\ loads' = [loads EXCEPT ![t].pc = "done"]
    /\ UNCHANGED <<instructions, breakpoints, output, variables, stack,
                   current_instruction_index, execution_state,
                   last_breakpoint_hit, program_output, string_constants,
                   line_to_instruction, call, debugger_loaded>>

\* the buttons: each handler returns at once while debugger is None
ResetButton == debugger_loaded /\ ResetDebugger

StepButton == debugger_loaded /\ Step

RunButton(marked) ==
    /\ debugger_loaded
    /\ Called("run_to_breakpoint",
              run_to_breakpoint_on(Self, debug_bytecode_text, marked))

LoadNext ==
    \/ \E code \in ClassListings : OpenClassFile(code)
    \/ \E t \in DOMAIN loads : LoaderCreate(t)
    \/ \E t \in DOMAIN loads : LoaderClearBreakpoints(t)
    \/ \E t \in DOMAIN loads : LoaderSchedule(t)
    \/ \E t \in DOMAIN loads : UpdateUi(t)
    \/ ResetButton
    \/ StepButton
    \/ \E marked \in SUBSET (1..MaxLen) : RunButton(marked)

LoadSpec == LoadInit /\ [][LoadNext]_vars

(***************************************************************************)
(* The instruction set.  A second specification runs the debugger over     *)
(* streams that lay a stack of ints, strs and None and then meet one       *)
(* instruction of every kind _simulate_instruction tells apart.            *)
(***************************************************************************)
\* the deepest stack an opcode reads: value and builder of append, b and a
\* of the arithmetic opcodes
OperandDepth == 2

\* how many values lie under the operands
MaxRest == 1

Operation(opcode, operands) == [opcode |-> opcode, operands |-> operands]

\* string_constants after the constant-pool line "#7 = Utf8 Hi"
Pool == 7 :> <<"H", "i">>

\* the constant-pool section in front of the listings with that pool
PoolListing ==
    <<"C", "o", "n", "s", "t", "a", "n", "t", " ", "p", "o", "o", "l", ":",
      "\n", "#", "7", " ", "=", " ", "U", "t", "f", "8", " ", "H", "i",
      "\n", "\n">>

\* what lies under the operands: the int 5 or the str "Hi"
RestOperations ==
    { Operation(OP_bipush, <<"5">>),
      Operation(OP_ldc, <<"#", "7">>) }

\* the instructions that push an operand: -7, 2, 0, 10, "Hi", None (index 9
\* is not in the pool) and the empty builder
PushOperations ==
    { Operation(OP_bipush, <<"-", "7">>),
      Operation(OP_bipush, <<"2">>),
      Operation(OP_bipush, <<"0">>),
      Operation(OP_bipush, <<"1", "0">>),
      Operation(OP_ldc, <<"#", "7">>),
      Operation(OP_ldc, <<"#", "9">>),
      Operation(OP_new, T_StringBuilder) }

\* the opcodes of the table of _simulate_instruction that read the stack,
\* and those that only push or do nothing
TableOperations ==
    { Operation(OP_invokevirtual, T_println),
      Operation(OP_invokevirtual, T_append),
      Operation(OP_invokevirtual, T_toString),
      Operation(OP_istore_1, <<>>),
      Operation(OP_istore_2, <<>>),
      Operation(OP_iadd, <<>>),
      Operation(OP_isub, <<>>),
      Operation(OP_imul, <<>>),
      Operation(OP_idiv, <<>>),
      Operation(OP_irem, <<>>),
      Operation(OP_iconst_5, <<>>),
      Operation(OP_getstatic, T_SystemOut),
      Operation(OP_ldc, <<"1", "0">>) }

\* instructions no branch of _simulate_instruction matches: an opcode the
\* table does not have, a virtual call of another method, a static field
\* and a construction of another type, and what parse_bytecode makes of
\* the line "o: iconst_5"
OtherOperations ==
    { Operation(<<"n", "o", "p">>, <<>>),
      Operation(OP_invokevirtual, <<"l", "e", "n", "g", "t", "h">>),
      Operation(OP_getstatic, <<"#", "2">>),
      Operation(OP_new, <<"#", "3">>),
      Operation(<<"i", "c", "o", "n", "s", "t", "_">>, <<"5">>) }

\* the streams rest, operands, instruction: at most MaxRest values under at
\* most OperandDepth operands, and one instruction from the tables on top;
\* offsets count from 0 and the "line N:" marker follows the first line
OperandStreams ==
    UNION { { [i \in 1..(r + n + 1) |->
                  Instruction(IF i <= r THEN rest[i]
                              ELSE IF i <= r + n THEN pushes[i - r]
                              ELSE last,
                              i - 1,
                              IF i = 1 THEN NoLine ELSE MarkerLine)] :
                rest \in [1..r -> RestOperations],
                pushes \in [1..n -> PushOperations],
                last \in TableOperations \cup OtherOperations } :
            r \in 0..MaxRest, n \in 0..OperandDepth }

\* the debugger __init__ leaves for a listing with the constant pool Pool;
\* the instruction records are given as _simulate_instruction reads them
OperandInit ==
    /\ instructions \in OperandStreams
    /\ breakpoints = {}
    /\ output = <<>>
    /\ variables = <<>>
    /\ stack = <<>>
    /\ current_instruction_index = 0
    /\ execution_state = "stopped"
    /\ last_breakpoint_hit = NoOffset
    /\ program_output = <<>>
    /\ string_constants = Pool
    /\ line_to_instruction = _build_line_map(instructions)
    /\ Displayed
    /\ call = [op |-> "__init__", exc |-> "", steps |-> -1, entry |-> "",
               bytecode |-> PoolListing \o Listing(instructions)]

OperandNext ==
    \/ Reset
    \/ Step
    \/ RunToNextBreakpoint

OperandSpec == OperandInit /\ [][OperandNext]_vars

(***************************************************************************)
(* Listings.  A third specification constructs the debugger on texts made  *)
(* of lines of every kind the two patterns of parse_bytecode tell apart.   *)
(***************************************************************************)
\* how many lines a text has
MaxLines == 3

\* the line javap prints for a call of System.out.println
PrintlnLine ==
    <<"3", ":", " ", "i", "n", "v", "o", "k", "e", "v", "i", "r", "t", "u",
      "a", "l", " ", "#", "4", " ", "/", "/", " ", "M", "e", "t", "h", "o",
      "d", " ", "j", "a", "v", "a", "/", "i", "o", "/", "P", "r", "i", "n",
      "t", "S", "t", "r", "e", "a", "m", ".", "p", "r", "i", "n", "t", "l",
      "n", ":", "(", "L", "j", "a", "v", "a", "/", "l", "a", "n", "g", "/",
      "S", "t", "r", "i", "n", "g", ";", ")", "V">>

\* an instruction line, an indented one with operands, one whose trailing
\* comment holds the words of a line marker, two line markers, a line that
\* is neither, an empty line, two lines whose mnemonic ends in a digit and
\* the println line
LinePool ==
    { <<"0", ":", " ", "n", "o", "p">>,
      <<" ", "2", ":", " ", "b", "i", "p", "u", "s", "h", " ", "7">>,
      <<"1", ":", " ", "l", "d", "c", " ", "#", "2", " ", "/", "/", " ",
        "l", "i", "n", "e", " ", "5", ":">>,
      <<"l", "i", "n", "e", " ", "3", ":", " ", "0">>,
      <<"l", "i", "n", "e", " ", "4", ":", " ", "1">>,
      <<"C", "o", "d", "e", ":">>,
      <<>>,
      <<"0", ":", " ", "i", "c", "o", "n", "s", "t", "_", "5">>,
      <<"1", ":", " ", "i", "s", "t", "o", "r", "e", "_", "1">>,
      PrintlnLine }

Texts ==
    UNION { { Join(<<"\n">>, lines) : lines \in [1..n -> LinePool] } :
            n \in 0..MaxLines }

\* JavaVirtualDebugger.__init__ on one of the texts
ParseInit ==
    /\ \E bytecode \in Texts :
          /\ call = [op |-> "__init__", exc |-> "", steps |-> -1,
                     entry |-> "", bytecode |-> bytecode]
          /\ instructions = parse_bytecode(bytecode)
    /\ breakpoints = {}
    /\ output = <<>>
    /\ variables = <<>>
    /\ stack = <<>>
    /\ current_instruction_index = 0
    /\ execution_state = "stopped"
    /\ last_breakpoint_hit = NoOffset
    /\ program_output = <<>>
    /\ string_constants = parse_constant_pool(call.bytecode)
    /\ line_to_instruction = _build_line_map(instructions)
    /\ Displayed

ParseSpec == ParseInit /\ [][OperandNext]_vars

(***************************************************************************)
(* Constant pools.  A fourth specification constructs the debugger on      *)
(* texts made of the lines parse_constant_pool tells apart.                *)
(***************************************************************************)
\* how many lines a text with constants has
MaxPoolLines == 4

\* the sentinel heading, a Utf8 and a String constant as javap -verbose
\* prints them, an empty line and an instruction that reads constant 7
PoolLinePool ==
    { <<"C", "o", "n", "s", "t", "a", "n", "t", " ", "p", "o", "o", "l",
        ":">>,
      <<" ", " ", "#", "7", " ", "=", " ", "U", "t", "f", "8", " ", " ",
        "H", "i">>,
      <<"#", "8", " ", "=", " ", "S", "t", "r", "i", "n", "g", " ", "#",
        "9", " ", "/", "/", " ", "Y", "o">>,
      <<>>,
      <<"1", ":", " ", "l", "d", "c", " ", "#", "7">> }

PoolTexts ==
    UNION { { Join(<<"\n">>, lines) : lines \in [1..n -> PoolLinePool] } :
            n \in 0..MaxPoolLines }

\* JavaVirtualDebugger.__init__ on one of the texts with constants
PoolInit ==
    /\ \E bytecode \in PoolTexts :
          /\ call = [op |-> "__init__", exc |-> "", steps |-> -1,
                     entry |-> "", bytecode |-> bytecode]
          /\ instructions = parse_bytecode(bytecode)
    /\ breakpoints = {}
    /\ output = <<>>
    /\ variables = <<>>
    /\ stack = <<>>
    /\ current_instruction_index = 0
    /\ execution_state = "stopped"
    /\ last_breakpoint_hit = NoOffset
    /\ program_output = <<>>
    /\ string_constants = parse_constant_pool(call.bytecode)
    /\ line_to_instruction = _build_line_map(instructions)
    /\ Displayed

PoolSpec == PoolInit /\ [][OperandNext]_vars

(***************************************************************************)
(* Properties.                                                             *)
(***************************************************************************)
streamLength == Len(instructions)

EndOfProgramLine == Line("End of program reached.", <<>>)

\* stack, variables, program counter, Program Output Log and marker stay
FrameUnchanged ==
    UNCHANGED <<stack, variables, current_instruction_index, program_output,
                last_breakpoint_hit>>

\* C1 as stated: after exactly streamLength calls of step() on a reset
\* session, none of which raised, the execution state is stopped, and after
\* one more call the trace ends with the end-of-program message.
C1_StoppedAfterLastStep ==
    /\ call.steps = streamLength => execution_state = "stopped"
    /\ call.steps = streamLength + 1 =>
           /\ execution_state = "stopped"
           /\ output[Len(output)] = EndOfProgramLine

\* C1 amended: after exactly streamLength calls of step() on a reset
\* session, none of which raised, the program counter is streamLength and
\* the execution state is paused when the stream is not empty (stopped when
\* it is empty); the call after these sets the state to stopped, leaves the
\* frame as it is and returns a trace that ends with the end-of-program
\* message.
C1_PausedAfterLastStep ==
    [][ /\ call'.steps = 0 => execution_state' = "stopped"
        /\ call'.steps = streamLength /\ Step =>
               /\ current_instruction_index' = streamLength
               /\ execution_state' = "paused"
        /\ call'.steps = streamLength + 1 /\ Step =>
               /\ execution_state' = "stopped"
               /\ FrameUnchanged
               /\ output' = Append(output, EndOfProgramLine) ]_vars

\* a reset session was stepped to the end of a stream of two or more
\* instructions and stepped once more
C1_Witness ==
    /\ streamLength >= 2
    /\ call.op = "step"
    /\ call.steps = streamLength + 1

\* C2: a run_to_next_breakpoint() that follows a run which returned paused
\* at an offset still in the Breakpoint Set, and which returns, has moved
\* the program counter forward: it is paused at a later instruction whose
\* offset is in the set, no instruction between the one it resumed after
\* and that one having an offset in the set, or it is stopped at the end of
\* the stream.
C2_NoRehaltAtSameBreakpoint ==
    [][ /\ call.op = "run" /\ call.exc = ""
        /\ execution_state = "paused"
        /\ AtBreakpoint(Self)
        /\ call'.op = "run"
        /\ RunToNextBreakpoint
        /\ call'.exc = ""
        => /\ current_instruction_index' > current_instruction_index
           /\ \A i \in (current_instruction_index + 2)
                           ..current_instruction_index' :
                  instructions[i].offset \notin breakpoints
           /\ \/ /\ execution_state' = "paused"
                 /\ current_instruction_index' < streamLength
                 /\ instructions[current_instruction_index' + 1].offset
                        \in breakpoints
                 /\ last_breakpoint_hit' =
                        instructions[current_instruction_index' + 1].offset
              \/ /\ execution_state' = "stopped"
                 /\ current_instruction_index' = streamLength ]_vars

\* a run resumed from the breakpoint it was paused at and paused again, at
\* a later instruction with the same offset
C2_Witness ==
    /\ call.op = "run" /\ call.exc = "" /\ call.entry = "hit"
    /\ execution_state = "paused"
    /\ current_instruction_index > 0
    /\ instructions[current_instruction_index].offset = last_breakpoint_hit
    /\ AtBreakpoint(Self)

\* C3: a run_to_next_breakpoint() right after reset(), with the offset of
\* instruction 0 in the Breakpoint Set, pauses at program counter 0 and
\* simulates nothing.
C3_ResetClearsMarker ==
    [][ /\ RunToNextBreakpoint
        /\ call.op = "reset"
        /\ streamLength > 0
        /\ instructions[1].offset \in breakpoints
        => /\ current_instruction_index' = 0
           /\ execution_state' = "paused"
           /\ UNCHANGED <<stack, variables, program_output>> ]_vars

RECURSIVE simulate_rest(_)
\* the instructions from the program counter to the end of the stream,
\* simulated one after the other
simulate_rest(self) ==
    IF self.current_instruction_index < Len(self.instructions)
    THEN LET r == _simulate_instruction(
                      self,
                      self.instructions[self.current_instruction_index + 1])
         IN  IF r.exc # "" THEN r
             ELSE simulate_rest(
                      [r.self EXCEPT !.current_instruction_index = @ + 1])
    ELSE Returns(self)

\* no instruction at or after the program counter has its offset in the
\* Breakpoint Set
NoBreakpointAhead ==
    \A i \in (current_instruction_index + 1)..streamLength :
        instructions[i].offset \notin breakpoints

\* C4: a run_to_next_breakpoint() that is called when the Breakpoint Set is
\* empty or holds no offset of a remaining instruction, and that returns,
\* has simulated every remaining instruction in order and ends with the
\* program counter at streamLength and the state stopped.
C4_RunDrainsWithoutBreakpoint ==
    [][ /\ call'.op = "run" /\ call'.exc = ""
        /\ NoBreakpointAhead
        /\ RunToNextBreakpoint
        => /\ current_instruction_index' = streamLength
           /\ execution_state' = "stopped"
           /\ stack' = simulate_rest(Self).self.stack
           /\ variables' = simulate_rest(Self).self.variables
           /\ program_output' = simulate_rest(Self).self.program_output
      ]_vars

\* a run right after reset() went through a stream of two or more
\* instructions, printing on its way, past a Breakpoint Set that is not
\* empty
C4_Witness ==
    /\ call.op = "run" /\ call.exc = "" /\ call.entry = "reset"
    /\ streamLength >= 2
    /\ breakpoints # {}
    /\ \A i \in 1..streamLength : instructions[i].offset \notin breakpoints
    /\ current_instruction_index = streamLength
    /\ execution_state = "stopped"
    /\ program_output # <<>>

\* C5: between calls the execution state is stopped or paused, never
\* running.
C5_NeverRunningBetweenCalls == execution_state \in {"stopped", "paused"}

\* C6: the program counter is an index between 0 and streamLength.
C6_CounterInRange ==
    /\ current_instruction_index >= 0
    /\ current_instruction_index <= streamLength

\* step() was called again at the end of a stream of two or more
\* instructions
C6_Witness ==
    /\ streamLength >= 2
    /\ current_instruction_index = streamLength
    /\ call.op = "step"
    /\ TrailingEnds(output) >= 1

\* C7: reset() returns, and leaves an empty stack, an empty Program Output
\* Log, program counter 0, the variables a = 5 and b = 10 and the state
\* stopped.
C7_ResetPostcondition ==
    call.op = "reset" =>
        /\ call.exc = ""
        /\ stack = <<>>
        /\ program_output = <<>>
        /\ current_instruction_index = 0
        /\ variables = << [k |-> "a", v |-> PyIntVal(5)],
                          [k |-> "b", v |-> PyIntVal(10)] >>
        /\ execution_state = "stopped"

\* reset() was called on a session that had hit a breakpoint
C7_Witness ==
    /\ call.op = "reset"
    /\ call.entry = ""
    /\ last_breakpoint_hit # NoOffset

\* C8: a reset() called right after a reset() leaves stack, variables,
\* program counter, trace, program output, state and marker (and stream,
\* constants and Breakpoint Set) as the first left them.
C8_ResetIdempotent ==
    [][ call.op = "reset" /\ call'.op = "reset" /\ Reset
        => UNCHANGED <<stack, variables, current_instruction_index, output,
                       program_output, execution_state, last_breakpoint_hit,
                       instructions, string_constants, breakpoints>> ]_vars

\* reset() was called twice in a row on a session that had hit a breakpoint
C8_Witness ==
    /\ call.op = "reset"
    /\ call.entry = "reset"
    /\ last_breakpoint_hit # NoOffset

\* C9: a step() called with the program counter at or past streamLength
\* sets the state to stopped and leaves stack, variables, program counter,
\* Program Output Log and marker as they are.
C9_StepAtEndKeepsFrame ==
    [][ /\ current_instruction_index >= streamLength
        /\ call'.op = "step"
        /\ Step
        => /\ execution_state' = "stopped"
           /\ call'.exc = ""
           /\ FrameUnchanged ]_vars

\* step() was called twice at the end of a stream, with a value on the
\* stack and a line in the Program Output Log
C9_Witness ==
    /\ call.op = "step"
    /\ TrailingEnds(output) >= 2
    /\ stack # <<>>
    /\ program_output # <<>>

\* C10: a step() that is called with the program counter below
\* streamLength, and that returns, has simulated the instruction at the
\* program counter and no other, has moved the counter by one and leaves
\* the state paused.
C10_StepSimulatesOne ==
    [][ /\ current_instruction_index < streamLength
        /\ call'.op = "step" /\ call'.exc = ""
        /\ Step
        => LET r == _simulate_instruction(
                        Self, instructions[current_instruction_index + 1])
           IN  /\ current_instruction_index' = current_instruction_index + 1
               /\ execution_state' = "paused"
               /\ stack' = r.self.stack
               /\ variables' = r.self.variables
               /\ program_output' = r.self.program_output
               /\ last_breakpoint_hit' = last_breakpoint_hit ]_vars

\* step() simulated the last instruction of a stream, a println that
\* printed, and left the counter at streamLength
C10_Witness ==
    /\ call.op = "step" /\ call.exc = ""
    /\ streamLength >= 2
    /\ current_instruction_index = streamLength
    /\ execution_state = "paused"
    /\ instructions[streamLength].opcode = OP_invokevirtual
    /\ program_output # <<>>
    /\ TrailingEnds(output) = 0

RECURSIVE simulate_upto(_, _)
\* the instructions from the program counter up to, and without, the one at
\* index halt, simulated one after the other
simulate_upto(self, halt) ==
    IF self.current_instruction_index < halt
    THEN LET r == _simulate_instruction(
                      self,
                      self.instructions[self.current_instruction_index + 1])
         IN  IF r.exc # "" THEN r
             ELSE simulate_upto(
                      [r.self EXCEPT !.current_instruction_index = @ + 1],
                      halt)
    ELSE Returns(self)

\* C11: when run_to_next_breakpoint() returns paused, the instruction at the
\* program counter has its offset in the Breakpoint Set and has not been
\* simulated (the frame is the one left by the instructions before it), the
\* marker equals that offset, and every instruction simulated during the
\* call had an offset outside the Breakpoint Set, except the one at the
\* entry position when it was skipped as the breakpoint hit last.
C11_PausedAtUnsimulatedBreakpoint ==
    [][ /\ call'.op = "run" /\ call'.exc = ""
        /\ execution_state' = "paused"
        /\ RunToNextBreakpoint
        => LET entry == current_instruction_index
               halt  == current_instruction_index'
               frame(self) == <<self.stack, self.variables,
                                self.program_output>>
           IN  /\ entry <= halt /\ halt < streamLength
               /\ instructions[halt + 1].offset \in breakpoints
               /\ last_breakpoint_hit' = instructions[halt + 1].offset
               /\ <<stack', variables', program_output'>> =
                      frame(simulate_upto(Self, halt).self)
               /\ \A i \in (entry + 1)..halt :
                      instructions[i].offset \in breakpoints
                      => /\ i = entry + 1
                         /\ instructions[i].offset = last_breakpoint_hit
      ]_vars

\* a run that began at a breakpoint hit by the run before it skipped that
\* instruction, simulated the next one, whose offset is outside the
\* Breakpoint Set, and paused in front of the third
C11_Witness ==
    /\ call.op = "run" /\ call.exc = "" /\ call.entry = "hit"
    /\ execution_state = "paused"
    /\ current_instruction_index = 2
    /\ streamLength = 3
    /\ instructions[1].offset \in breakpoints
    /\ instructions[2].offset \notin breakpoints
    /\ instructions[3].offset \in breakpoints
    /\ last_breakpoint_hit = instructions[3].offset
    /\ stack # <<>>

\* s is a prefix of t
IsPrefix(s, t) == Len(s) <= Len(t) /\ SubSeq(t, 1, Len(s)) = s

\* C12: the Program Output Log is append-only between resets: a step() or a
\* run_to_next_breakpoint(), however it ends, leaves a log that the log
\* before the call is a prefix of, and a log that held an entry is empty
\* only after a reset.  (A transition that is not a reset is a step, a run
\* or a change of the Breakpoint Set.)
C12_LogAppendOnly ==
    [][ /\ call'.op \notin {"reset", "reset_debugger"}
           => IsPrefix(program_output, program_output')
        /\ program_output # <<>> /\ program_output' = <<>>
           => call'.op \in {"reset", "reset_debugger"}
      ]_vars

\* a run that was called with an entry in the log ended at the end of the
\* stream and the entry is still there
C12_Witness ==
    /\ call.op = "run" /\ call.entry = "hit"
    /\ current_instruction_index = streamLength
    /\ streamLength = 3
    /\ instructions[2].opcode = OP_invokevirtual
    /\ instructions[3].offset \in breakpoints
    /\ Len(program_output) = 1

\* the instruction step() is about to simulate
NextInstruction == instructions[current_instruction_index + 1]

IsPrintln(instr) ==
    instr.opcode = OP_invokevirtual /\ Contains(instr.operands, T_println)

\* C13: println on a stack that is not empty pops exactly the top value,
\* appends the text of that value followed by a newline as one new entry at
\* the end of the Program Output Log, and leaves the variables and the rest
\* of the stack as they were.
C13_PrintlnFrameEffect ==
    [][ /\ Step
        /\ current_instruction_index < streamLength
        /\ IsPrintln(NextInstruction)
        /\ stack # <<>>
        => /\ call'.exc = ""
           /\ stack' = SubSeq(stack, 1, Len(stack) - 1)
           /\ program_output' =
                  Append(program_output, PyStr(stack[Len(stack)]) \o <<"\n">>)
           /\ variables' = variables ]_vars

\* println printed -7 from the top of a stack of three values
C13_Witness ==
    /\ call.op = "step" /\ call.exc = ""
    /\ streamLength = 4
    /\ current_instruction_index = streamLength
    /\ IsPrintln(instructions[streamLength])
    /\ Len(stack) = 2
    /\ program_output = << <<"-", "7", "\n">> >>
    /\ TrailingEnds(output) = 0

\* q is the floor of a / b: the one integer with q <= a / b < q + 1
IsFloor(q, a, b) ==
    IF b > 0 THEN q * b <= a /\ a < (q + 1) * b
    ELSE q * b >= a /\ a > (q + 1) * b

\* the two values on top of the stack are ints
IntOperands ==
    /\ Len(stack) >= 2
    /\ stack[Len(stack)].t = "int"
    /\ stack[Len(stack) - 1].t = "int"

\* C14: idiv and irem pop b, then a, and push floor(a / b) and
\* a - b * floor(a / b), for ints a and b with b # 0; a = -7 and b = 2 give
\* the quotient -4.
C14_FloorDivisionAndRemainder ==
    [][ /\ Step
        /\ current_instruction_index < streamLength
        /\ NextInstruction.opcode \in {OP_idiv, OP_irem}
        /\ IntOperands
        /\ stack[Len(stack)].n # 0
        => LET b == stack[Len(stack)].n
               a == stack[Len(stack) - 1].n
               bound == (IF a < 0 THEN 0 - a ELSE a) + 1
               q == CHOOSE q \in (0 - bound)..bound : IsFloor(q, a, b)
           IN  /\ call'.exc = ""
               /\ \E f \in (0 - bound)..bound : IsFloor(f, a, b)
               /\ stack' = Append(SubSeq(stack, 1, Len(stack) - 2),
                                  PyIntVal(IF NextInstruction.opcode = OP_idiv
                                           THEN q ELSE a - b * q))
               /\ a = -7 /\ b = 2 /\ NextInstruction.opcode = OP_idiv
                  => stack'[Len(stack')] = PyIntVal(-4) ]_vars

\* idiv divided -7 by 2 above another value and left -4 on top
C14_Witness ==
    /\ call.op = "step" /\ call.exc = ""
    /\ streamLength = 4
    /\ current_instruction_index = streamLength
    /\ TrailingEnds(output) = 0
    /\ instructions[2].operands = <<"-", "7">>
    /\ instructions[3].operands = <<"2">>
    /\ instructions[4].opcode = OP_idiv
    /\ Len(stack) = 2
    /\ stack[2] = PyIntVal(-4)

\* C15: iadd and isub pop two values, b first and then a, and push a + b and
\* a - b, and leave the rest of the stack untouched; push 5, push 10 and
\* iadd on an empty stack leave the stack [15].
C15_AddAndSubtract ==
    [][ /\ Step
        /\ current_instruction_index < streamLength
        /\ NextInstruction.opcode \in {OP_iadd, OP_isub}
        /\ IntOperands
        => LET b == stack[Len(stack)].n
               a == stack[Len(stack) - 1].n
           IN  /\ call'.exc = ""
               /\ stack' = Append(SubSeq(stack, 1, Len(stack) - 2),
                                  PyIntVal(IF NextInstruction.opcode = OP_iadd
                                           THEN a + b ELSE a - b))
               /\ variables' = variables
               /\ program_output' = program_output ]_vars

\* the three steps over "bipush 5", "bipush 10", "iadd" left the stack [15]
C15_Witness ==
    /\ call.op = "step" /\ call.exc = ""
    /\ streamLength = 3
    /\ current_instruction_index = streamLength
    /\ TrailingEnds(output) = 0
    /\ instructions[1].opcode = OP_bipush
    /\ instructions[1].operands = <<"5">>
    /\ instructions[2].opcode = OP_bipush
    /\ instructions[2].operands = <<"1", "0">>
    /\ instructions[3].opcode = OP_iadd
    /\ stack = <<PyIntVal(15)>>

\* C16 as stated: ldc always pushes exactly one value and never aborts: the
\* pool string when the operand references an index that is in the pool,
\* otherwise the number the operand text denotes when it parses as a
\* number, otherwise None.
C16_LdcAlwaysPushes ==
    [][ /\ Step
        /\ current_instruction_index < streamLength
        /\ NextInstruction.opcode = OP_ldc
        => LET operands == NextInstruction.operands
               m == SearchHashIndex(operands)
               number == PyInt(operands)
           IN  /\ call'.exc = ""
               /\ Len(stack') = Len(stack) + 1
               /\ SubSeq(stack', 1, Len(stack)) = stack
               /\ LET v == stack'[Len(stack')]
                  IN  IF m.ok /\ m.n \in DOMAIN string_constants
                      THEN v = PyStrVal(string_constants[m.n])
                      ELSE IF number.ok
                      THEN IsNum(v) /\ v.n = number.n
                      ELSE v = PyNone ]_vars

IsAppend(instr) ==
    /\ instr.opcode = OP_invokevirtual
    /\ ~Contains(instr.operands, T_println)
    /\ Contains(instr.operands, T_append)

IsToString(instr) ==
    /\ instr.opcode = OP_invokevirtual
    /\ ~Contains(instr.operands, T_println)
    /\ ~Contains(instr.operands, T_append)
    /\ Contains(instr.operands, T_toString)

\* the stack is too short for the instruction
Underflows(instr, stk) ==
    \/ /\ \/ IsPrintln(instr)
          \/ IsToString(instr)
          \/ instr.opcode \in {OP_istore_1, OP_istore_2}
       /\ stk = <<>>
    \/ /\ \/ IsAppend(instr)
          \/ instr.opcode \in {OP_iadd, OP_isub, OP_imul, OP_idiv, OP_irem}
       /\ Len(stk) < 2

\* C17: a println, toString or store on an empty stack, and an append, add,
\* subtract, multiply, divide or remainder on fewer than two values, leave
\* the stack, the variables and the Program Output Log unchanged and do not
\* raise, and the step() around them still advances the program counter by
\* one.
C17_UnderflowIsSilent ==
    [][ /\ Step
        /\ current_instruction_index < streamLength
        /\ Underflows(NextInstruction, stack)
        => /\ call'.exc = ""
           /\ UNCHANGED <<stack, variables, program_output>>
           /\ current_instruction_index' = current_instruction_index + 1
      ]_vars

\* step() went over an irem that found a single value on the stack
C17_Witness ==
    /\ call.op = "step" /\ call.exc = ""
    /\ streamLength = 2
    /\ current_instruction_index = streamLength
    /\ TrailingEnds(output) = 0
    /\ instructions[2].opcode = OP_irem
    /\ stack = <<PyIntVal(0)>>

\* the instruction matches a branch of the opcode table
InTable(instr) ==
    \/ instr.opcode \in {OP_ldc, OP_istore_1, OP_istore_2, OP_iconst_5,
                         OP_bipush, OP_iadd, OP_isub, OP_imul, OP_idiv,
                         OP_irem}
    \/ instr.opcode = OP_getstatic /\ Contains(instr.operands, T_SystemOut)
    \/ instr.opcode = OP_new /\ Contains(instr.operands, T_StringBuilder)
    \/ /\ instr.opcode = OP_invokevirtual
       /\ \/ Contains(instr.operands, T_println)
          \/ Contains(instr.operands, T_append)
          \/ Contains(instr.operands, T_toString)

\* C18: an instruction that is not in the opcode table, a virtual call of a
\* method other than println, append and toString and a static field or a
\* construction of another type among them, leaves the stack, the variables
\* and the Program Output Log unchanged and never aborts.
C18_UnsupportedIsNoOp ==
    [][ /\ Step
        /\ current_instruction_index < streamLength
        /\ ~InTable(NextInstruction)
        => /\ call'.exc = ""
           /\ UNCHANGED <<stack, variables, program_output>> ]_vars

\* step() went over the construction of another type with two values on
\* the stack
C18_Witness ==
    /\ call.op = "step" /\ call.exc = ""
    /\ streamLength = 3
    /\ current_instruction_index = streamLength
    /\ TrailingEnds(output) = 0
    /\ instructions[3].opcode = OP_new
    /\ ~InTable(instructions[3])
    /\ Len(stack) = 2

\* the stack holds an int dividend under the int divisor 0
DividesByZero(stk) ==
    /\ Len(stk) >= 2
    /\ stk[Len(stk)] = PyIntVal(0)
    /\ stk[Len(stk) - 1].t = "int"

\* C19: idiv and irem on a stack of two or more values whose divisor is 0
\* raise ZeroDivisionError, which leaves _simulate_instruction and the
\* step() or run_to_next_breakpoint() around it; no result is pushed and
\* the program counter stays at the instruction.
C19_DivisionByZeroRaises ==
    [][ /\ streamLength > 0
        /\ instructions[streamLength].opcode \in {OP_idiv, OP_irem}
        /\ \/ Step /\ current_instruction_index = streamLength - 1
           \/ /\ RunToNextBreakpoint
              /\ current_instruction_index < streamLength
        /\ LET r == simulate_upto(Self, streamLength - 1)
           IN  r.exc = "" /\ DividesByZero(r.self.stack)
        => LET at == simulate_upto(Self, streamLength - 1).self
           IN  /\ call'.exc = "ZeroDivisionError"
               /\ current_instruction_index' = streamLength - 1
               /\ IsPrefix(stack', at.stack)
               /\ variables' = at.variables
               /\ program_output' = at.program_output ]_vars

\* a run from the start of a stream of four instructions was ended by the
\* irem of its last instruction, whose divisor is 0
C19_Witness ==
    /\ call.op = "run" /\ call.exc = "ZeroDivisionError"
    /\ call.entry = "reset"
    /\ streamLength = 4
    /\ current_instruction_index = 3
    /\ instructions[2].opcode = OP_bipush
    /\ instructions[3].operands = <<"0">>
    /\ instructions[4].opcode = OP_irem

\* the lines of the text the debugger was constructed on
ListingOf == SplitLines(call.bytecode)

\* the indexes of the instruction lines of the text
InstructionLines ==
    {i \in 1..Len(ListingOf) : SearchInstruction(ListingOf[i]).ok}

\* the index of the k-th instruction line
InstructionLine(k) ==
    CHOOSE i \in InstructionLines :
        Cardinality({j \in InstructionLines : j <= i}) = k

\* the number of the last line marker among the lines before line i, NoLine
\* when there is none
NearestPrecedingMarker(i) ==
    LET markers == {j \in 1..(i - 1) : SearchLineMarker(ListingOf[j]).ok}
    IN  IF markers = {} THEN NoLine
        ELSE SearchLineMarker(
                 ListingOf[CHOOSE j \in markers :
                               \A m \in markers : m <= j]).n

\* C20 as stated: the parsed stream holds exactly one Instruction for every
\* instruction line of the text, in the order of the text, with the offset
\* of the line and the number of the nearest line marker before it, NoLine
\* when no marker precedes; the other lines contribute nothing.
C20_OneInstructionPerLine ==
    call.op = "__init__" =>
        /\ Len(instructions) = Cardinality(InstructionLines)
        /\ \A k \in 1..Len(instructions) :
               /\ instructions[k].offset =
                      DigitsToNat(
                          SearchInstruction(
                              ListingOf[InstructionLine(k)]).offset)
               /\ instructions[k].line =
                      NearestPrecedingMarker(InstructionLine(k))

\* the index of line at which the mnemonic of an instruction line begins:
\* after the whitespace, the offset, the colon and the space
MnemonicStart(line) ==
    RunEnd(line, RunEnd(line, 1, Whitespace), DigitChars) + 2

\* the complete mnemonic token of an instruction line: letters, underscores
\* and digits
MnemonicToken(line) ==
    SubSeq(line, MnemonicStart(line),
           RunEnd(line, MnemonicStart(line), Letters \cup DigitChars) - 1)

\* what follows the mnemonic token up to the trailing comment, stripped
OperandText(line) ==
    LET rest == From(line, RunEnd(line, MnemonicStart(line),
                                  Letters \cup DigitChars))
        cuts == {i \in 1..(Len(rest) - 1) :
                    rest[i] = "/" /\ rest[i + 1] = "/"}
    IN  Strip(IF cuts = {} THEN rest
              ELSE SubSeq(rest, 1,
                          (CHOOSE i \in cuts : \A j \in cuts : i <= j) - 1))

\* C21 as stated: the opcode of a parsed Instruction is the complete
\* mnemonic token of its line, digit suffixes included, and its operand text
\* is what follows the mnemonic up to the trailing comment: "0: iconst_5"
\* yields the opcode iconst_5 with empty operands and "1: istore_1" the
\* opcode istore_1.
C21_OpcodeIsWholeMnemonic ==
    call.op = "__init__" =>
        \A k \in 1..Cardinality(InstructionLines) :
            /\ k <= Len(instructions)
            /\ instructions[k].opcode =
                   MnemonicToken(ListingOf[InstructionLine(k)])
            /\ instructions[k].operands =
                   OperandText(ListingOf[InstructionLine(k)])

\* C22 as stated: in every stream the parser produces, the offsets are
\* unique and strictly increasing in stream order.
C22_OffsetsStrictlyIncreasing ==
    call.op = "__init__" =>
        \A i, j \in 1..Len(instructions) :
            i < j => instructions[i].offset < instructions[j].offset


\* the lines of the argument of __init__
TextLines == SplitLines(call.bytecode)

\* the index of the first line of the text that holds the sentinel heading,
\* 0 when there is none
FirstSentinel ==
    LET S == {i \in 1..Len(TextLines) :
                 Contains(TextLines[i],
                          <<"C", "o", "n", "s", "t", "a", "n", "t", " ",
                            "p", "o", "o", "l", ":">>)}
    IN  IF S = {} THEN 0 ELSE CHOOSE i \in S : \A j \in S : i <= j

\* the index of the first blank line after the first sentinel heading, one
\* past the last line when there is none
FirstBlankAfterSentinel ==
    LET B == {i \in FirstSentinel + 1..Len(TextLines) :
                 Strip(TextLines[i]) = <<>>}
    IN  IF B = {} THEN Len(TextLines) + 1
        ELSE CHOOSE i \in B : \A j \in B : i <= j

RECURSIVE EntriesOf(_, _, _)
\* the constants of the lines from..to of the text, later lines overriding
EntriesOf(from, to, pool) ==
    IF from > to THEN pool
    ELSE EntriesOf(from + 1, to, pool_entries(pool, TextLines[from]))

\* C23: the constant pool holds exactly the String and Utf8 constants of one
\* contiguous region of the text, which the sentinel heading opens and the
\* first blank line after it closes; constants outside it are ignored, and a
\* text without the heading gives the empty pool.
C23_PoolFromOneRegion ==
    call.op = "__init__" =>
        string_constants =
            IF FirstSentinel = 0 THEN <<>>
            ELSE EntriesOf(FirstSentinel + 1, FirstBlankAfterSentinel - 1,
                           <<>>)


\* C24: reset(), step() and runToNextBreakpoint() never change the
\* instruction stream, the line map, the constant pool or the Breakpoint
\* Set (no transition changes the first three, and one that changes the
\* Breakpoint Set is none of the three calls), and step() does not consult
\* the Breakpoint Set: with any one offset put into the set or taken out of
\* it, step() leaves the same object and raises the same (every Breakpoint
\* Set is reached by such changes).
C24_ProgramDataIsFixed ==
    [][ /\ UNCHANGED <<instructions, line_to_instruction, string_constants>>
        /\ breakpoints' # breakpoints
             => /\ ~(call' = CallRecord("reset", "") /\ Reset)
                /\ ~(call' = CallRecord("step", call'.exc) /\ Step)
                /\ ~(call' = CallRecord("run", call'.exc)
                        /\ RunToNextBreakpoint)
        /\ call'.op = "step" /\ breakpoints' = breakpoints /\ Step
             => \A offset \in 0..MaxOffset :
                   LET bps == IF offset \in breakpoints
                              THEN breakpoints \ {offset}
                              ELSE breakpoints \cup {offset}
                       r   == step([Self EXCEPT !.breakpoints = bps])
                   IN  /\ r.exc = call'.exc
                       /\ r.self = [Self' EXCEPT !.breakpoints = bps]
      ]_vars

\* a step() has gone over an instruction whose offset is in the Breakpoint
\* Set, in a session with a line map, after a run that paused on a
\* breakpoint
C24_Witness ==
    /\ call.op = "step"
    /\ call.exc = ""
    /\ call.entry = "hit"
    /\ current_instruction_index >= 1
    /\ instructions[current_instruction_index].offset \in breakpoints
    /\ line_to_instruction # <<>>


\* the instruction record parse_bytecode makes of the println line of javap
PrintlnInstruction == parse_bytecode(PrintlnLine)[1]

\* C25: the instruction parsed from a line whose method name stands only in
\* the trailing comment, such as the println line of javap, executes with
\* println semantics: a step() over it on a stack that is not empty pops one
\* value and appends its text to the log.
C25_CommentNamedPrintln ==
    [][ /\ call'.op = "step"
        /\ call'.exc = ""
        /\ current_instruction_index < Len(instructions)
        /\ NextInstruction.opcode = PrintlnInstruction.opcode
        /\ NextInstruction.operands = PrintlnInstruction.operands
        /\ stack # <<>>
        /\ Step
        => /\ stack' = Pop(Self, 1).stack
           /\ Len(program_output') = Len(program_output) + 1
      ]_vars


\* C26: on every instruction record and every stack of numbers, strings and
\* null, _simulate_instruction completes without raising unless the
\* instruction is idiv or irem and the divisor, the top of the stack, is 0:
\* a step() over any other instruction returns.
C26_OnlyZeroDivisorRaises ==
    [][ /\ call'.op = "step"
        /\ current_instruction_index < Len(instructions)
        /\ ~ /\ NextInstruction.opcode \in {OP_idiv, OP_irem}
             /\ Len(stack) >= 2
             /\ Top(Self) = PyIntVal(0)
        /\ Step
        => call'.exc = ""
      ]_vars


\* C27: repeated calls of run_to_next_breakpoint() make progress, whatever
\* the stream and however the Breakpoint Set is changed between the calls:
\* a call that follows a call which returned paused, and returns paused
\* itself, is at a later program counter, and every session that is run
\* again and again is stopped by a run after finitely many calls unless an
\* instruction raises.
C27_RunsMakeProgress ==
    /\ [][ /\ call.op = "run" /\ call.exc = ""
           /\ execution_state = "paused"
           /\ call'.op = "run" /\ call'.exc = ""
           /\ execution_state' = "paused"
           /\ RunToNextBreakpoint
           => current_instruction_index' > current_instruction_index ]_vars
    /\ <>(\/ call.exc # ""
          \/ call.op = "run" /\ execution_state = "stopped")

\* a run that followed a run paused on a breakpoint has stopped the session
\* at the end of a stream of two or more instructions
C27_Witness ==
    /\ call.op = "run" /\ call.exc = "" /\ call.entry = "hit"
    /\ execution_state = "stopped"
    /\ streamLength >= 2
    /\ current_instruction_index = streamLength
    /\ last_breakpoint_hit # NoOffset


\* C28: a step() that an arithmetic error of _simulate_instruction ends (an
\* idiv or irem whose divisor is 0) leaves the frame as it was before the
\* failing instruction: the stack still holds both operands, and the
\* variables, the program counter and the Program Output Log are unchanged.
C28_ArithmeticErrorKeepsFrame ==
    [][ /\ call'.op = "step"
        /\ call'.exc = "ZeroDivisionError"
        /\ current_instruction_index < Len(instructions)
        /\ NextInstruction.opcode \in {OP_idiv, OP_irem}
        /\ DividesByZero(stack)
        /\ Step
        => UNCHANGED <<stack, variables, current_instruction_index,
                       program_output>>
      ]_vars


\* C29: a session that was just created has the frame reset() produces: an
\* empty stack, program counter 0, the variables a = 5 and b = 10, an empty
\* Program Output Log, no last-breakpoint marker and the state stopped.
C29_FreshFrameIsResetFrame ==
    call.op = "__init__" =>
        /\ stack = reset(Self).stack
        /\ current_instruction_index = reset(Self).current_instruction_index
        /\ variables = reset(Self).variables
        /\ program_output = reset(Self).program_output
        /\ last_breakpoint_hit = NoOffset
        /\ execution_state = reset(Self).execution_state


\* C30: with a single breakpoint on the k-th instruction line of the debug
\* view, the Run button pressed on a session that was just reset pauses with
\* the program counter at index k - 1, the instruction that line shows, on
\* every parsed stream, streams with repeated offsets included (a run that
\* raises before it gets there is left aside).
C30_RunPausesAtMarkedLine ==
    [][ \A k \in 1..Len(instructions) :
           /\ call.op = "reset_debugger"
           /\ call'.op = "run_to_breakpoint"
           /\ call'.exc = ""
           /\ RunToBreakpoint({k})
           => /\ execution_state' = "paused"
              /\ current_instruction_index' = k - 1
      ]_vars


\* C31: while class files are being loaded, every Step and every Run with a
\* marked line that executes drives a session parsed from the listing the
\* debug view shows, in every interleaving of the loader threads, the
\* scheduled updates and the buttons: at the click the debug view holds the
\* lines of the debugger's instructions.
C31_ButtonsDriveDisplayedListing ==
    [][ \/ call' = CallRecord("step", call'.exc) /\ StepButton
        \/ /\ call' = CallRecord("run_to_breakpoint", call'.exc)
           /\ \E marked \in SUBSET (1..MaxLen) \ {{}} : RunButton(marked)
        => debug_bytecode_text = formatted_bytecode(instructions)
      ]_vars

=============================================================================
